---- MODULE Spec2Model ----
(***************************************************************************)
(* A model of thesislib's training entry points:                           *)
(*   - the six train_* functions of thesislib/utils/ml/runners.py, each a  *)
(*     straight-line pipeline inside one try block, modelled as one action *)
(*     per pipeline step plus the except clause;                           *)
(*   - Bench of thesislib/utils/dl/bench.py (construction, run and the     *)
(*     methods run calls).                                                 *)
(* One call is in progress at a time (the library is single-threaded).     *)
(***************************************************************************)
EXTENDS Integers, Sequences, FiniteSets, TLC

(* ---------------------------------------------------------------------- *)
(* Bounds of the model                                                     *)
(* ---------------------------------------------------------------------- *)
\* symptom vocabularies of 1..MaxSymptoms entries (plus BoundaryCounts)
MaxSymptoms == 3
\* rows of the data file
NumRows == 3
\* folds of cross_validate
NumFolds == 3
\* a fold's accuracy is one of 0/MaxScore .. MaxScore/MaxScore
MaxScore == 2
\* invocations of run on one Bench
MaxRuns == 2
\* names in the nlice_symptoms argument of train_ai_med_nb
MaxNlice == 2
\* epochs a Runner completes
MaxEpochs == 2

(* ---------------------------------------------------------------------- *)
(* Program constants                                                       *)
(* ---------------------------------------------------------------------- *)
\* reg_indices = [0, 1, 2]: gender, race, age
RegColumns == 3
\* num_features = num_symptoms*8 + 3: presence flag + 7 sub-attributes
SlotsPerSymptom == 8
\* "five categorical groups each 33 columns wide"
CategoricalGroups == 5
CategoricalGroupWidth == 33
\* dtype=np.uint16
UInt16Modulus == 65536
\* an index of (start, None): the slice runs to the last column
NoneEnd == -1
\* test_size=0.2: one row in five
TestSizeInverse == 5

\* symptom counts at which the advanced partition changes shape: the first
\* count whose matrix holds the 165 categorical columns, the count the
\* constant 33 was written for, and the two counts around the uint16 limit
BoundaryCounts == {24, 33, 8191, 8192}

RFRunners == {"train_rf", "train_ai_med_rf", "train_ai_med_adv_rf"}
NBRunners == {"train_nb", "train_ai_med_nb", "train_ai_med_adv_nb"}
CVRunners == {"train_ai_med_rf", "train_ai_med_nb",
              "train_ai_med_adv_rf", "train_ai_med_adv_nb"}
AdvRunners == {"train_ai_med_adv_rf", "train_ai_med_adv_nb"}
Runners == RFRunners \cup NBRunners

Rows == 1..NumRows
Folds == 1..NumFolds
Scores == 0..MaxScore
ScoreVectors == [Folds -> Scores]

(* ---------------------------------------------------------------------- *)
(* Generic helpers                                                         *)
(* ---------------------------------------------------------------------- *)
RECURSIVE SumSeq(_, _)
SumSeq(f, n) == IF n = 0 THEN 0 ELSE f[n] + SumSeq(f, n - 1)

Abs(x) == IF x < 0 THEN 0 - x ELSE x

\* np.argmin: the first index holding the minimum (folds numbered from 1)
ArgMin(v) ==
    CHOOSE i \in DOMAIN v :
        /\ \A j \in DOMAIN v : v[i] <= v[j]
        /\ \A j \in DOMAIN v : j < i => v[j] > v[i]

IndexOf(s, x) == CHOOSE i \in 1..Len(s) : s[i] = x

(* ---------------------------------------------------------------------- *)
(* The pipelines                                                           *)
(* ---------------------------------------------------------------------- *)
\* a faulty order: the artifact is dumped before the results JSON is written
StepsOf_DumpBeforeResults(f) ==
    IF f = "train_rf" THEN
        <<"open_db", "read_csv", "fit_transform", "split", "fit", "score",
          "dump", "write_results">>
    ELSE IF f = "train_nb" THEN
        <<"open_db", "read_csv", "fit_transform", "split", "classifier_map",
          "fit", "score", "dump", "write_results">>
    ELSE IF f \in RFRunners THEN
        <<"open_db", "read_csv", "fit_transform", "cross_validate",
          "mean_scores", "select", "dump", "write_results">>
    ELSE
        <<"open_db", "read_csv", "fit_transform", "classifier_map",
          "cross_validate", "mean_scores", "select", "dump", "write_results">>

\* the statements of each try block, in program order
StepsOf(f) ==
    IF f = "train_rf" THEN
        <<"open_db", "read_csv", "fit_transform", "split", "fit", "score",
          "write_results", "dump">>
    ELSE IF f = "train_nb" THEN
        <<"open_db", "read_csv", "fit_transform", "split", "classifier_map",
          "fit", "score", "write_results", "dump">>
    ELSE IF f \in RFRunners THEN
        <<"open_db", "read_csv", "fit_transform", "cross_validate",
          "mean_scores", "write_results", "select", "dump">>
    ELSE
        <<"open_db", "read_csv", "fit_transform", "classifier_map",
          "cross_validate", "mean_scores", "write_results", "select", "dump">>

NextStep(f, s) ==
    LET S == StepsOf(f)
        i == IndexOf(S, s)
    IN  IF i = Len(S) THEN "return" ELSE S[i + 1]

\* the is_nlice parameter exists on four of the six functions
HasNliceFlag(f) == f \in {"train_rf", "train_nb", "train_ai_med_rf", "train_ai_med_nb"}

\* the vocabularies tried: every small one, and for the advanced Naive Bayes
\* runner, whose index arithmetic depends on the count, the boundary counts
SymptomCounts(f) ==
    IF f = "train_ai_med_adv_nb" THEN (1..MaxSymptoms) \cup BoundaryCounts
    ELSE 1..MaxSymptoms

\* report.get_tracked_metrics(classes, metric_name=[...]): one scorer per
\* tracked metric, keyed by metric name
get_tracked_metrics ==
    <<"accuracy", "precision_weighted", "recall_weighted", "top5">>

ACCURACY_SCORE == "accuracy"

\* report.get_tracked_metrics(classes) without metric_name, as train_nb calls
\* it: the metrics of the scoring report
get_tracked_metrics_default ==
    <<"accuracy", "precision_weighted", "recall_weighted", "top5">>

\* scorers of a function
scorers(f) ==
    IF f = "train_nb" THEN get_tracked_metrics_default ELSE get_tracked_metrics

\* a call made on the classifier
FitCall == [op |-> "fit", key |-> "", data |-> "train"]
ScorerCall(k, d) == [op |-> "scorer", key |-> k, data |-> d]
DumpCall == [op |-> "joblib.dump", key |-> "", data |-> ""]

\* a faulty order: a scorer is given the test data before the training data
scorer_data_test_first == <<"test", "train">>

\* the data a scorer is given in one turn of the scorer loop, in order:
\* train_score = scorer(clf, train_data, ...), then test_score
scorer_data == <<"train", "test">>


(* ---------------------------------------------------------------------- *)
(* The encoded matrix and the column arithmetic of the Naive Bayes runners *)
(* ---------------------------------------------------------------------- *)
\* width of sparsifier.fit_transform's matrix: 3 + num_symptoms (basic),
\* 3 + 8*num_symptoms (NLICE and advanced NLICE)
EncodedWidth(f, nl, n) ==
    IF f \in AdvRunners \/ nl THEN RegColumns + SlotsPerSymptom * n
    ELSE RegColumns + n

\* num_features = num_symptoms*8 + 3
num_features(n) == n * SlotsPerSymptom + RegColumns

\* np.arange(3, num_features, 8, dtype=np.uint16)[i], i from 0: the values
\* are filled in 16 bits
symptom_indices(i) == (RegColumns + SlotsPerSymptom * i) % UInt16Modulus

\* len(np.arange(3, num_features, 8)) = ceil((num_features - 3) / 8)
symptom_indices_len(n) ==
    (num_features(n) - RegColumns + SlotsPerSymptom - 1) \div SlotsPerSymptom

\* a faulty variant: the duration block is stacked twice, the onset block
\* never
BlockOffsets_duration_twice == <<0, 1, 2, 3, 6, 7, 4, 4>>

\* the offsets added to symptom_indices, in the order np.hstack lays the
\* blocks out: presence, nature, location, intensity, excitation, frequency,
\* duration, onset
BlockOffsets == <<0, 1, 2, 3, 6, 7, 4, 5>>

\* symptom_indices + j on a uint16 array wraps modulo 2^16
AddUInt16(x, j) == (x + j) % UInt16Modulus

\* new_indices[p] of train_ai_med_adv_nb, p from 0
new_indices_adv(n, p) ==
    IF p < RegColumns THEN p
    ELSE LET q == p - RegColumns
             b == q \div symptom_indices_len(n)
             s == q % symptom_indices_len(n)
         IN  AddUInt16(symptom_indices(s), BlockOffsets[b + 1])

\* len(new_indices) of train_ai_med_adv_nb: the width of data[:, new_indices]
new_indices_adv_len(n) == RegColumns + Len(BlockOffsets) * symptom_indices_len(n)

symptom_indices_end(n) == RegColumns + n
categorical_indices_end(n) ==
    symptom_indices_end(n) + CategoricalGroupWidth * CategoricalGroups

Column(clf, i, sp) == [clf |-> clf, start |-> i, end |-> i + 1, sparse |-> sp]
Slice(clf, a, b, sp) == [clf |-> clf, start |-> a, end |-> b, sparse |-> sp]

\* classifier_map of train_ai_med_adv_nb
classifier_map_adv(n) ==
    << Column("gender_clf", 0, FALSE),
       Column("race_clf", 1, FALSE),
       Column("age_clf", 2, FALSE),
       Slice("symptom_clf", RegColumns, symptom_indices_end(n), TRUE),
       Slice("nlice_categorical", symptom_indices_end(n),
             categorical_indices_end(n), FALSE),
       Slice("nlice_gaussian", categorical_indices_end(n), NoneEnd, FALSE) >>

\* a faulty variant: the symptom group starts one column late
classifier_map_basic_from_four ==
    << Column("gender_clf", 0, FALSE),
       Column("race_clf", 1, FALSE),
       Column("age_clf", 2, FALSE),
       Slice("symptom_clf", RegColumns + 1, NoneEnd, TRUE) >>

\* classifier_map of train_nb and train_ai_med_nb, is_nlice false
classifier_map_basic ==
    << Column("gender_clf", 0, FALSE),
       Column("race_clf", 1, FALSE),
       Column("age_clf", 2, FALSE),
       Slice("symptom_clf", RegColumns, NoneEnd, TRUE) >>

\* a faulty variant: the Bernoulli estimator is given the first block
classifier_map_nlice_presence_first(k) ==
    << Column("gender_clf", 0, FALSE),
       Column("race_clf", 1, FALSE),
       Column("age_clf", 2, FALSE),
       Slice("symptom_clf", RegColumns, k, TRUE),
       Slice("symptom_nlice_clf", k, NoneEnd, FALSE) >>

\* classifier_map of train_nb and train_ai_med_nb, is_nlice true: k is 7 in
\* train_nb and nlice_index_end in train_ai_med_nb
classifier_map_nlice(k) ==
    << Column("gender_clf", 0, FALSE),
       Column("race_clf", 1, FALSE),
       Column("age_clf", 2, FALSE),
       Slice("symptom_nlice_clf", RegColumns, k, FALSE),
       Slice("symptom_clf", k, NoneEnd, TRUE) >>

\* reg_indices of train_nb: [0, 1, 2] + [9, 12, 20, 25]
reg_indices_train_nb == <<0, 1, 2, 9, 12, 20, 25>>

\* reg_indices of train_ai_med_nb: plain_indices + nlice_indices
reg_indices_ai_med(nlice) == <<0, 1, 2>> \o nlice

SeqRange(s) == {s[i] : i \in 1..Len(s)}

\* a faulty variant: the columns are left in encoder order
new_indices_nlice_unordered(reg, W, p) == p

\* new_indices[p] = (reg_indices + bern_indices)[p], p from 0, where
\* bern_indices are the idx of range(W) not in reg_indices, ascending
new_indices_nlice(reg, W, p) ==
    IF p < Len(reg) THEN reg[p + 1]
    ELSE CHOOSE c \in 0..(W - 1) :
            /\ c \notin SeqRange(reg)
            /\ Cardinality({d \in 0..(c - 1) : d \notin SeqRange(reg)}) = p - Len(reg)

\* len(bern_indices)
bern_indices_len(reg, W) ==
    Cardinality({c \in 0..(W - 1) : c \notin SeqRange(reg)})

\* new_indices = reg_indices + bern_indices, as a sequence
new_indices_list(reg, W) ==
    [p \in 1..(Len(reg) + bern_indices_len(reg, W)) |->
        new_indices_nlice(reg, W, p - 1)]

\* data[:, new_indices] raises IndexError when an index is not a column
IndicesInRange(reg, W) == \A c \in SeqRange(reg) : c < W

\* the end of a slice, None read as the matrix width
SliceEnd(e, W) == IF e.end = NoneEnd THEN W ELSE e.end

(* ---------------------------------------------------------------------- *)
(* Scores and model selection                                              *)
(* ---------------------------------------------------------------------- *)
\* the training accuracies a fold can report next to its test accuracy:
\* each fold's estimator either scores on its training folds as on its
\* held-out fold or fits them perfectly
TrainVectors(te) ==
    {[i \in Folds |-> IF i \in S THEN MaxScore ELSE te[i]] : S \in SUBSET Folds}

\* np.mean(v) * NumFolds: deviations are compared scaled by NumFolds, which
\* keeps them integers
ScaledMean(v) == SumSeq(v, NumFolds)

\* a faulty variant: the deviation of the training accuracies
abs_test_score_nb_from_train(tr, te) ==
    [i \in Folds |-> Abs(NumFolds * tr[i] - ScaledMean(te))]

\* np.abs(cv_res["test_accuracy"] - test_score), the Naive Bayes runners
abs_test_score_nb(tr, te) ==
    [i \in Folds |-> Abs(NumFolds * te[i] - ScaledMean(te))]

\* np.abs(cv_res["train_accuracy"] - test_score), the Random Forest runners
abs_test_score_rf(tr, te) ==
    [i \in Folds |-> Abs(NumFolds * tr[i] - ScaledMean(te))]

\* the rows of the test split: ceil(0.2 * n) of them
TestCount == (NumRows + TestSizeInverse - 1) \div TestSizeInverse

\* a faulty variant: only the train value is stored
ResultEntries_train_only(keys) ==
    {<<"name", "">>} \cup {<<keys[i], "train">> : i \in 1..Len(keys)}

\* the keys of train_results: "name" and, per scorer, train and test
ResultEntries(keys) ==
    {<<"name", "">>} \cup
    {<<keys[i], "train">> : i \in 1..Len(keys)} \cup
    {<<keys[i], "test">> : i \in 1..Len(keys)}

(* ---------------------------------------------------------------------- *)
(* State                                                                   *)
(* ---------------------------------------------------------------------- *)
VARIABLES
    fn,              \* the function being called, "none" before the call
    pc,              \* the statement it is at
    is_nlice,        \* its is_nlice argument
    num_symptoms,    \* len(symptoms_db), 0 before the file is read
    nlice_indices,   \* train_ai_med_nb: the columns of nlice_symptoms
    width,           \* columns of the encoded matrix, 0 before it exists
    fit_rows,        \* the rows given to the sparsifier's fit
    test_rows,       \* the rows of the test split or of a held-out fold
    classifier_map,  \* the Naive Bayes classifier map, <<>> before it exists
    reordered,       \* whether data[:, new_indices] replaced the matrix
    cv_train,        \* cv_res["train_accuracy"], <<>> before cross_validate
    cv_test,         \* cv_res["test_accuracy"]
    abs_test_score,  \* <<>> while None
    estimator_idx,   \* from 0; -1 before it is set
    train_results,   \* the entries of the train_results dict
    results_file,    \* whether the results JSON was written
    model_file,      \* the joblib artifact: "absent", "partial", "written"
    dumped_fold,     \* the fold whose estimator the artifact holds, from 0
    res,             \* "none", "True", "False" or "raised"
    exc_at,          \* the statement that raised, "none" if none did
    clf_calls,       \* the calls made on the classifier clf, in order
    new_indices,     \* NLICE branches: the column order of the matrix given
                     \* to fit, <<>> while the columns are in encoder order
    test_new_indices \* train_nb: the column order of test_data, likewise

runner_vars == <<fn, pc, is_nlice, num_symptoms, nlice_indices, width, fit_rows,
                 test_rows, classifier_map, reordered, cv_train, cv_test,
                 abs_test_score, estimator_idx, train_results, results_file,
                 model_file, dumped_fold, res, exc_at, clf_calls, new_indices,
                 test_new_indices>>

\* Bench and what it hands to its collaborators
VARIABLES
    input_dim,       \* the declared input dimension
    train_index,     \* split_data: the rows of the training split
    val_index,       \* split_data: the rows of the validation split
    sparsifier,      \* the statistics DLSparseMaker holds, <<>> before fit
    prep_width,      \* train_data.shape[1] after transform, 0 before
    age_mean,        \* self.age_mean, <<>> while None
    age_std,         \* self.age_std, <<>> while None
    runner,          \* self.runner: "None" or "Runner"
    run_metrics,     \* self.run_metrics
    message,         \* the local message of run, "" before it is set
    exc,             \* the text of the exception in flight, "none" if none
    events,          \* the calls made during the current run, in order
    saved,           \* the data torch.save wrote in the current run, <<>> if none
    logged_metrics,  \* what mlflow.log_metrics received in the current run
    logged_params,   \* what mlflow.log_params received in the current run
    runs,            \* completed invocations of run
    VisdomConfig,    \* the attributes of the class VisdomConfig, "unset"
                     \* before anything assigned them
    visdom_config,   \* self.visdom_config: "None" or "VisdomConfig", the class
    visdom_arg,      \* the visdom settings given to the train_dl call that
                     \* built the Bench, "none" if a caller built it
    visdom_server,   \* the settings connect_visom read, "None" if it read none
    epoch_count,     \* self.runner.get_epoch(), 0 before the Runner has fitted
    layer_config_arg,   \* the layer_config_file argument of the train_dl call
                        \* that built the Bench, "None" if there was none
    layer_config_file,  \* self.layer_config_file, "None" while None
    model_layer_config, \* self.model_layer_config, "None" while None
    dnn_layer_config    \* the layer_config the DNN was built with, "unbuilt"
                        \* before compose_model

bench_vars == <<input_dim, train_index, val_index, sparsifier, prep_width,
                age_mean, age_std, runner, run_metrics, message, exc, events,
                saved, logged_metrics, logged_params, runs, VisdomConfig,
                visdom_config, visdom_arg, visdom_server, epoch_count,
                layer_config_arg, layer_config_file, model_layer_config,
                dnn_layer_config>>

vars == <<runner_vars, bench_vars>>

Init ==
    /\ fn = "none"
    /\ pc = "idle"
    /\ is_nlice = FALSE
    /\ num_symptoms = 0
    /\ nlice_indices = <<>>
    /\ width = 0
    /\ fit_rows = {}
    /\ test_rows = {}
    /\ classifier_map = <<>>
    /\ reordered = FALSE
    /\ cv_train = <<>>
    /\ cv_test = <<>>
    /\ abs_test_score = <<>>
    /\ estimator_idx = -1
    /\ train_results = {}
    /\ results_file = FALSE
    /\ model_file = "absent"
    /\ dumped_fold = -1
    /\ res = "none"
    /\ exc_at = "none"
    /\ clf_calls = <<>>
    /\ new_indices = <<>>
    /\ test_new_indices = <<>>
    /\ input_dim = 0
    /\ train_index = {}
    /\ val_index = {}
    /\ sparsifier = <<>>
    /\ prep_width = 0
    /\ age_mean = <<>>
    /\ age_std = <<>>
    /\ runner = "None"
    /\ run_metrics = <<>>
    /\ message = ""
    /\ exc = "none"
    /\ events = <<>>
    /\ saved = <<>>
    /\ logged_metrics = <<>>
    /\ logged_params = <<>>
    /\ runs = 0
    /\ VisdomConfig = "unset"
    /\ visdom_config = "None"
    /\ visdom_arg = "none"
    /\ visdom_server = "None"
    /\ epoch_count = 0
    /\ layer_config_arg = "None"
    /\ layer_config_file = "None"
    /\ model_layer_config = "None"
    /\ dnn_layer_config = "unbuilt"

At(step) == fn \in Runners /\ pc = step
Advance == pc' = NextStep(fn, pc)

(* ---------------------------------------------------------------------- *)
(* The train_* functions, statement by statement                           *)
(* ---------------------------------------------------------------------- *)
\* a caller enters one of the six functions
call(f, nl) ==
    /\ pc = "idle"
    /\ UNCHANGED bench_vars
    /\ fn' = f
    /\ is_nlice' = nl
    /\ pc' = "open_db"
    /\ UNCHANGED <<num_symptoms, nlice_indices, width, fit_rows, test_rows,
                   classifier_map, reordered, cv_train, cv_test, abs_test_score,
                   estimator_idx, train_results, results_file, model_file,
                   dumped_fold, res, exc_at, clf_calls, new_indices, test_new_indices>>

\* nlice_indices for the nlice_symptoms lists tried: up to MaxNlice names of
\* the vocabulary in any order, a name possibly given twice; a name at
\* position s of the sorted vocabulary gives the index s + 3
NliceLists(n) ==
    UNION {[1..l -> {s + RegColumns : s \in 0..(n - 1)}] : l \in 0..MaxNlice}

\* json.load(symptoms_db_json); train_ai_med_nb also looks nlice_symptoms up
open_db ==
    /\ At("open_db")
    /\ UNCHANGED bench_vars
    /\ \E n \in SymptomCounts(fn) :
        /\ num_symptoms' = n
        /\ IF fn = "train_ai_med_nb" /\ is_nlice
           THEN \E l \in NliceLists(n) : nlice_indices' = l
           ELSE nlice_indices' = <<>>
    /\ Advance
    /\ UNCHANGED <<fn, is_nlice, width, fit_rows, test_rows, classifier_map,
                   reordered, cv_train, cv_test, abs_test_score, estimator_idx,
                   train_results, results_file, model_file, dumped_fold, res,
                   exc_at, clf_calls, new_indices, test_new_indices>>

\* pd.read_csv(data_file)
read_csv ==
    /\ At("read_csv")
    /\ UNCHANGED bench_vars
    /\ Advance
    /\ UNCHANGED <<fn, is_nlice, num_symptoms, nlice_indices, width, fit_rows,
                   test_rows, classifier_map, reordered, cv_train, cv_test,
                   abs_test_score, estimator_idx, train_results, results_file,
                   model_file, dumped_fold, res, exc_at, clf_calls, new_indices, test_new_indices>>

\* the table handed to sparsifier.fit_transform: the whole data frame
fit_transform_rows == Rows

\* sparsifier.fit_transform(df)
fit_transform ==
    /\ At("fit_transform")
    /\ UNCHANGED bench_vars
    /\ fit_rows' = fit_transform_rows
    /\ width' = EncodedWidth(fn, is_nlice, num_symptoms)
    /\ Advance
    /\ UNCHANGED <<fn, is_nlice, num_symptoms, nlice_indices, test_rows,
                   classifier_map, reordered, cv_train, cv_test, abs_test_score,
                   estimator_idx, train_results, results_file, model_file,
                   dumped_fold, res, exc_at, clf_calls, new_indices, test_new_indices>>

\* StratifiedShuffleSplit(n_splits=1, test_size=0.2): train_rf, train_nb
split ==
    /\ At("split")
    /\ UNCHANGED bench_vars
    /\ \E t \in SUBSET Rows :
        /\ Cardinality(t) = TestCount
        /\ test_rows' = t
    /\ Advance
    /\ UNCHANGED <<fn, is_nlice, num_symptoms, nlice_indices, width, fit_rows,
                   classifier_map, reordered, cv_train, cv_test, abs_test_score,
                   estimator_idx, train_results, results_file, model_file,
                   dumped_fold, res, exc_at, clf_calls, new_indices, test_new_indices>>

\* the Naive Bayes runners build classifier_map, reordering the columns first
\* in the NLICE and advanced variants
build_classifier_map ==
    /\ At("classifier_map")
    /\ UNCHANGED bench_vars
    /\ \/ /\ fn = "train_ai_med_adv_nb"
          /\ classifier_map' = classifier_map_adv(num_symptoms)
          /\ reordered' = TRUE
          /\ width' = new_indices_adv_len(num_symptoms)
          /\ UNCHANGED <<new_indices, test_new_indices>>
       \/ /\ fn \in {"train_nb", "train_ai_med_nb"}
          /\ ~is_nlice
          /\ classifier_map' = classifier_map_basic
          /\ UNCHANGED <<reordered, width, new_indices, test_new_indices>>
       \/ /\ fn = "train_nb"
          /\ is_nlice
          /\ IndicesInRange(reg_indices_train_nb, width)
          /\ new_indices' = new_indices_list(reg_indices_train_nb, width)
          /\ test_new_indices' = new_indices_list(reg_indices_train_nb, width)
          /\ width' = Len(new_indices')
          /\ classifier_map' = classifier_map_nlice(7)
          /\ reordered' = TRUE
       \/ /\ fn = "train_ai_med_nb"
          /\ is_nlice
          /\ IndicesInRange(reg_indices_ai_med(nlice_indices), width)
          /\ new_indices' =
                new_indices_list(reg_indices_ai_med(nlice_indices), width)
          /\ width' = Len(new_indices')
          /\ classifier_map' =
                classifier_map_nlice(RegColumns + Len(nlice_indices))
          /\ reordered' = TRUE
          /\ UNCHANGED test_new_indices
    /\ Advance
    /\ UNCHANGED <<fn, is_nlice, num_symptoms, nlice_indices, fit_rows,
                   test_rows, cv_train, cv_test, abs_test_score, estimator_idx,
                   train_results, results_file, model_file, dumped_fold, res,
                   exc_at, clf_calls>>

\* clf.fit(train_data, train_labels): train_rf, train_nb
fit ==
    /\ At("fit")
    /\ UNCHANGED bench_vars
    /\ clf_calls' = Append(clf_calls, FitCall)
    /\ Advance
    /\ UNCHANGED <<fn, is_nlice, num_symptoms, nlice_indices, width, fit_rows,
                   test_rows, classifier_map, reordered, cv_train, cv_test,
                   abs_test_score, estimator_idx, train_results, results_file,
                   model_file, dumped_fold, res, exc_at, new_indices,
                   test_new_indices>>

\* the scorer calls made so far
IsScorerCall(c) == c.op = "scorer"
ScorerCalls == SelectSeq(clf_calls, IsScorerCall)

\* the scorer loop of train_rf and train_nb, one scorer call at a time:
\* train_results starts as {"name": ...}; each turn calls the scorer on the
\* training data, then on the test data, then stores train_results[key]
score ==
    /\ At("score")
    /\ UNCHANGED bench_vars
    /\ LET keys == scorers(fn)
           done == Len(ScorerCalls)
           key == keys[(done \div Len(scorer_data)) + 1]
           turn == (done % Len(scorer_data)) + 1
       IN  /\ clf_calls' = Append(clf_calls, ScorerCall(key, scorer_data[turn]))
           /\ train_results' =
                 IF turn = Len(scorer_data)
                 THEN train_results \cup ResultEntries(<<>>) \cup
                      {<<key, "train">>, <<key, "test">>}
                 ELSE train_results \cup ResultEntries(<<>>)
           /\ pc' = IF done + 1 = Len(scorer_data) * Len(keys)
                    THEN NextStep(fn, pc) ELSE pc
    /\ UNCHANGED <<fn, is_nlice, num_symptoms, nlice_indices, width, fit_rows,
                   test_rows, classifier_map, reordered, cv_train, cv_test,
                   abs_test_score, estimator_idx, results_file, model_file,
                   dumped_fold, res, exc_at, new_indices, test_new_indices>>

\* cross_validate(clf, data, label_values, ...): every row is held out in
\* one fold; each fold reports a train and a test accuracy
cross_validate ==
    /\ At("cross_validate")
    /\ UNCHANGED bench_vars
    /\ \E te \in ScoreVectors : \E tr \in TrainVectors(te) :
        /\ cv_test' = te
        /\ cv_train' = tr
    /\ test_rows' = Rows
    /\ Advance
    /\ UNCHANGED <<fn, is_nlice, num_symptoms, nlice_indices, width, fit_rows,
                   classifier_map, reordered, abs_test_score, estimator_idx,
                   train_results, results_file, model_file, dumped_fold, res,
                   exc_at, clf_calls, new_indices, test_new_indices>>

\* the loop over scorers.keys() after cross_validate
mean_scores ==
    /\ At("mean_scores")
    /\ UNCHANGED bench_vars
    /\ train_results' = ResultEntries(scorers(fn))
    /\ abs_test_score' =
         IF ACCURACY_SCORE \notin SeqRange(scorers(fn)) THEN <<>>
         ELSE IF fn \in RFRunners THEN abs_test_score_rf(cv_train, cv_test)
         ELSE abs_test_score_nb(cv_train, cv_test)
    /\ Advance
    /\ UNCHANGED <<fn, is_nlice, num_symptoms, nlice_indices, width, fit_rows,
                   test_rows, classifier_map, reordered, cv_train, cv_test,
                   estimator_idx, results_file, model_file, dumped_fold, res,
                   exc_at, clf_calls, new_indices, test_new_indices>>

\* json.dump(train_results, fp)
write_results ==
    /\ At("write_results")
    /\ UNCHANGED bench_vars
    /\ results_file' = TRUE
    /\ Advance
    /\ UNCHANGED <<fn, is_nlice, num_symptoms, nlice_indices, width, fit_rows,
                   test_rows, classifier_map, reordered, cv_train, cv_test,
                   abs_test_score, estimator_idx, train_results, model_file,
                   dumped_fold, res, exc_at, clf_calls, new_indices, test_new_indices>>

\* estimator_idx = np.argmin(abs_test_score), or 0 when it is None
select ==
    /\ At("select")
    /\ UNCHANGED bench_vars
    /\ estimator_idx' =
         IF abs_test_score # <<>> THEN ArgMin(abs_test_score) - 1 ELSE 0
    /\ Advance
    /\ UNCHANGED <<fn, is_nlice, num_symptoms, nlice_indices, width, fit_rows,
                   test_rows, classifier_map, reordered, cv_train, cv_test,
                   abs_test_score, train_results, results_file, model_file,
                   dumped_fold, res, exc_at, clf_calls, new_indices, test_new_indices>>

\* joblib.dump(estimator_serialized, estimator_serialized_file)
dump ==
    /\ At("dump")
    /\ UNCHANGED bench_vars
    /\ model_file' = "written"
    /\ dumped_fold' = estimator_idx
    /\ clf_calls' = Append(clf_calls, DumpCall)
    /\ Advance
    /\ UNCHANGED <<fn, is_nlice, num_symptoms, nlice_indices, width, fit_rows,
                   test_rows, classifier_map, reordered, cv_train, cv_test,
                   abs_test_score, estimator_idx, train_results, results_file,
                   res, exc_at, new_indices, test_new_indices>>

\* res = True; return res
return_res ==
    /\ At("return")
    /\ UNCHANGED bench_vars
    /\ res' = "True"
    /\ pc' = "done"
    /\ UNCHANGED <<fn, is_nlice, num_symptoms, nlice_indices, width, fit_rows,
                   test_rows, classifier_map, reordered, cv_train, cv_test,
                   abs_test_score, estimator_idx, train_results, results_file,
                   model_file, dumped_fold, exc_at, clf_calls, new_indices, test_new_indices>>

\* a faulty variant: every function logs the exception and returns False
except_res_log_and_return(f) == "False"

\* the except clause: res = False and return res in the Random Forest
\* runners, raise e in the Naive Bayes runners
except_res(f) == IF f \in RFRunners THEN "False" ELSE "raised"

\* a statement of the try block raises: the Random Forest runners log and
\* return False, the Naive Bayes runners re-raise
except_clause ==
    /\ fn \in Runners
    /\ UNCHANGED bench_vars
    /\ pc \in SeqRange(StepsOf(fn))
    /\ exc_at' = pc
    /\ res' = except_res(fn)
    /\ pc' = "done"
    /\ \/ UNCHANGED model_file
       \/ /\ pc = "dump"
          /\ model_file' = "partial"
    /\ UNCHANGED <<fn, is_nlice, num_symptoms, nlice_indices, width, fit_rows,
                   test_rows, classifier_map, reordered, cv_train, cv_test,
                   abs_test_score, estimator_idx, train_results, results_file,
                   dumped_fold, clf_calls, new_indices, test_new_indices>>

RunnerNext ==
    \/ \E f \in Runners : \E nl \in (IF HasNliceFlag(f) THEN BOOLEAN ELSE {FALSE}) :
          call(f, nl)
    \/ open_db
    \/ read_csv
    \/ fit_transform
    \/ split
    \/ build_classifier_map
    \/ fit
    \/ score
    \/ cross_validate
    \/ mean_scores
    \/ write_results
    \/ select
    \/ dump
    \/ return_res
    \/ except_clause

(* ---------------------------------------------------------------------- *)
(* Bench                                                                   *)
(* ---------------------------------------------------------------------- *)
\* AGE of row r of the data file: distinct powers of two, so that two
\* different sets of rows never share their statistics
AgeOf(r) == 2 ^ r

RECURSIVE SumOver(_, _)
SumOver(S, sq) ==
    IF S = {} THEN 0
    ELSE LET r == CHOOSE x \in S : TRUE
         IN  (IF sq THEN AgeOf(r) * AgeOf(r) ELSE AgeOf(r)) + SumOver(S \ {r}, sq)

\* DLSparseMaker.fit(table): the mean of AGE as the fraction <<sum, n>> and
\* the variance (the square of age_std) as <<n*sum of squares - sum^2, n^2>>
DLSparseMaker_fit(rows) ==
    LET n == Cardinality(rows)
        t == SumOver(rows, FALSE)
    IN  [age_mean |-> <<t, n>>,
         age_std  |-> <<n * SumOver(rows, TRUE) - t * t, n * n>>]

\* train_size = 0.8: floor(0.8 * n) rows train, the others validate
TrainCount == ((TestSizeInverse - 1) * NumRows) \div TestSizeInverse

Ev(op, ok, rows, stats) == [op |-> op, ok |-> ok, rows |-> rows, stats |-> stats]
Called(op) == Ev(op, TRUE, {}, <<>>)

\* the statements of run's try block, in program order
TrySteps ==
    <<"split_data", "sparsifier_fit", "transform_train", "transform_val",
      "check_dim", "build_loaders", "compose_model", "connect_visom",
      "runner_fit", "save_results", "torch_save", "log_artifact">>

\* the call each statement makes
StepOp(step) ==
    CASE step = "split_data" -> "split_data"
      [] step = "sparsifier_fit" -> "sparsifier.fit"
      [] step = "transform_train" -> "sparsifier.transform"
      [] step = "transform_val" -> "sparsifier.transform"
      [] step = "check_dim" -> "assert"
      [] step = "build_loaders" -> "AiBasicMedDataset"
      [] step = "compose_model" -> "DNN"
      [] step = "connect_visom" -> "Runner"
      [] step = "runner_fit" -> "runner.fit"
      [] step = "save_results" -> "runner.get_epoch"
      [] step = "torch_save" -> "torch.save"
      [] step = "log_artifact" -> "mlflow.log_artifact"

\* str(e) of the exception a statement raises
ExcText(step) == "error in " \o StepOp(step)
DimensionMessage == "Dimension of prepped data does not match specified input dimension"

BenchAt(step) == fn = "Bench" /\ pc = step
BenchAdvance ==
    pc' = IF IndexOf(TrySteps, pc) = Len(TrySteps) THEN "succeed"
          ELSE TrySteps[IndexOf(TrySteps, pc) + 1]

SetMetric(m, k, v) == (k :> v) @@ m

\* the input dimensions a caller declares: the basic or the NLICE width
DeclaredDims(n) == {RegColumns + n, RegColumns + SlotsPerSymptom * n}

\* the visdom settings a caller of train_dl gives: each name stands for one
\* tuple (url, port, username, password, env)
VisdomSettings == {"visdom_a", "visdom_b"}

\* the layer configuration files a caller names
LayerConfigFiles == {"layers_a.json", "layers_b.json"}

\* kwargs.get(key, default)
kwargs_get(kwargs, key, default) ==
    IF key \in DOMAIN kwargs THEN kwargs[key] ELSE default

\* get_layer_config: None without a file, else the JSON the file holds
get_layer_config(file) ==
    IF file = "None" THEN "None" ELSE "contents of " \o file

\* the keyword arguments train_dl gives to Bench
train_dl_kwargs(layer_config_file_arg) ==
    [visdom_config |-> "VisdomConfig", layer_config |-> layer_config_file_arg]

\* Bench.__init__ called with the keyword arguments kwargs
Bench_construct(kwargs) ==
    /\ pc = "idle"
    /\ fn' = "Bench"
    /\ pc' = "constructed"
    /\ \E n \in 1..MaxSymptoms : \E d \in DeclaredDims(n) :
        /\ num_symptoms' = n
        /\ input_dim' = d
    /\ visdom_config' = kwargs_get(kwargs, "visdom_config", "None")
    /\ layer_config_file' = kwargs_get(kwargs, "layer_config_file", "None")
    /\ model_layer_config' = get_layer_config(layer_config_file')
    /\ age_std' = <<>>
    /\ age_mean' = <<>>
    /\ runner' = "None"
    /\ run_metrics' = SetMetric(<<>>, "read_data_time", "secs")
    /\ UNCHANGED <<is_nlice, nlice_indices, width, fit_rows, test_rows,
                   classifier_map, reordered, cv_train, cv_test, abs_test_score,
                   estimator_idx, train_results, results_file, model_file,
                   dumped_fold, res, exc_at, clf_calls, new_indices,
                   test_new_indices>>
    /\ UNCHANGED <<train_index, val_index, sparsifier, prep_width, message,
                   exc, events, saved, logged_metrics, logged_params, runs,
                   visdom_server, epoch_count, dnn_layer_config>>

\* train_dl, up to bench.run(): visdom_config = VisdomConfig binds the class
\* itself, the five assignments set its attributes, and the Bench is given
\* the class as visdom_config
train_dl ==
    \E v \in VisdomSettings : \E l \in LayerConfigFiles \cup {"None"} :
        /\ VisdomConfig' = v
        /\ visdom_arg' = v
        /\ layer_config_arg' = l
        /\ Bench_construct(train_dl_kwargs(l))

\* another call of train_dl, after or interleaved with the one that built
\* this Bench, reaches its own five assignments; its Bench is another object
train_dl_again ==
    /\ fn = "Bench"
    /\ visdom_arg # "none"
    /\ \E v \in VisdomSettings :
        /\ v # VisdomConfig
        /\ VisdomConfig' = v
    /\ UNCHANGED <<runner_vars, input_dim, train_index, val_index, sparsifier,
                   prep_width, age_mean, age_std, runner, run_metrics, message,
                   exc, events, saved, logged_metrics, logged_params, runs,
                   visdom_config, visdom_arg, visdom_server, epoch_count,
                   layer_config_arg, layer_config_file, model_layer_config,
                   dnn_layer_config>>

\* Bench(run_name, train_file, mlflow_uri, input_dim, num_symptoms, ...)
\* built by a caller that gives no visdom_config and, as layer_config_file,
\* nothing or a file
Bench_init ==
    /\ \E kwargs \in {<<>>} \cup
                      {[layer_config_file |-> f] : f \in LayerConfigFiles} :
          Bench_construct(kwargs)
    /\ UNCHANGED <<VisdomConfig, visdom_arg, layer_config_arg>>

\* everything a Bench method leaves alone
BenchFrame ==
    UNCHANGED <<fn, is_nlice, num_symptoms, nlice_indices, width, fit_rows,
                test_rows, classifier_map, reordered, cv_train, cv_test,
                abs_test_score, estimator_idx, train_results, results_file,
                model_file, dumped_fold, res, exc_at, clf_calls,
                new_indices, test_new_indices, input_dim, VisdomConfig,
                visdom_config, visdom_arg, layer_config_arg, layer_config_file,
                model_layer_config>>

\* a faulty variant: run keeps the metrics the Bench already holds
run_keeps_metrics(m) == m

\* self.run_metrics = {}
run_resets_metrics(m) == <<>>

\* run, up to the try block
run ==
    /\ BenchAt("constructed")
    /\ runs < MaxRuns
    /\ run_metrics' = run_resets_metrics(run_metrics)
    /\ message' = ""
    /\ events' = <<Called("mlflow.start_run")>>
    /\ saved' = <<>>
    /\ logged_metrics' = <<>>
    /\ logged_params' = <<>>
    /\ train_index' = {}
    /\ val_index' = {}
    /\ sparsifier' = <<>>
    /\ prep_width' = 0
    /\ pc' = "split_data"
    /\ visdom_server' = "None"
    /\ BenchFrame
    /\ UNCHANGED <<age_mean, age_std, runner, exc, runs, epoch_count, dnn_layer_config>>

\* split_data: StratifiedShuffleSplit(n_splits=1, train_size=self.train_size)
split_data ==
    /\ BenchAt("split_data")
    /\ \E t \in SUBSET Rows :
        /\ Cardinality(t) = TrainCount
        /\ train_index' = t
        /\ val_index' = Rows \ t
    /\ run_metrics' = SetMetric(run_metrics, "split_data_time", "secs")
    /\ events' = Append(events, Called("split_data"))
    /\ BenchAdvance
    /\ BenchFrame
    /\ UNCHANGED <<sparsifier, prep_width, age_mean, age_std, runner, message,
                   exc, saved, logged_metrics, logged_params, runs, visdom_server, epoch_count, dnn_layer_config>>

\* a faulty variant: the sparsifier is fitted on the whole table
prep_loaders_fit_all(train, val) == train \cup val

\* the table prep_loaders hands to sparsifier.fit
prep_loaders_fit_rows(train, val) == train

\* sparsifier = DLSparseMaker(...); sparsifier.fit(train_data);
\* self.age_std = sparsifier.age_std; self.age_mean = sparsifier.age_mean
sparsifier_fit ==
    /\ BenchAt("sparsifier_fit")
    /\ LET rows == prep_loaders_fit_rows(train_index, val_index)
           st == DLSparseMaker_fit(rows)
       IN  /\ sparsifier' = st
           /\ age_std' = st.age_std
           /\ age_mean' = st.age_mean
           /\ events' = Append(events, Ev("sparsifier.fit", TRUE, rows, st))
    /\ BenchAdvance
    /\ BenchFrame
    /\ UNCHANGED <<train_index, val_index, prep_width, runner, run_metrics,
                   message, exc, saved, logged_metrics, logged_params, runs, visdom_server, epoch_count, dnn_layer_config>>

\* train_data = sparsifier.transform(train_data)
transform_train ==
    /\ BenchAt("transform_train")
    /\ prep_width' = EncodedWidth("Bench", FALSE, num_symptoms)
    /\ events' = Append(events,
                        Ev("sparsifier.transform", TRUE, train_index, sparsifier))
    /\ BenchAdvance
    /\ BenchFrame
    /\ UNCHANGED <<train_index, val_index, sparsifier, age_mean, age_std,
                   runner, run_metrics, message, exc, saved, logged_metrics,
                   logged_params, runs, visdom_server, epoch_count, dnn_layer_config>>

\* val_data = sparsifier.transform(val_data)
transform_val ==
    /\ BenchAt("transform_val")
    /\ events' = Append(events,
                        Ev("sparsifier.transform", TRUE, val_index, sparsifier))
    /\ BenchAdvance
    /\ BenchFrame
    /\ UNCHANGED <<train_index, val_index, sparsifier, prep_width, age_mean,
                   age_std, runner, run_metrics, message, exc, saved,
                   logged_metrics, logged_params, runs, visdom_server, epoch_count, dnn_layer_config>>

\* a faulty variant: the width is never compared
dimension_unchecked(w, d) == TRUE

\* assert input_dim == self.input_dim
dimension_ok(w, d) == w = d

\* the assert of prep_loaders and the statement after it
check_dim ==
    /\ BenchAt("check_dim")
    /\ \/ /\ dimension_ok(prep_width, input_dim)
          /\ run_metrics' = SetMetric(run_metrics, "sparsify_data_time", "secs")
          /\ BenchAdvance
          /\ UNCHANGED <<exc, events>>
       \/ /\ ~dimension_ok(prep_width, input_dim)
          /\ exc' = DimensionMessage
          /\ events' = Append(events, Ev("assert", FALSE, {}, <<>>))
          /\ pc' = "except"
          /\ UNCHANGED run_metrics
    /\ BenchFrame
    /\ UNCHANGED <<train_index, val_index, sparsifier, prep_width, age_mean,
                   age_std, runner, message, saved, logged_metrics,
                   logged_params, runs, visdom_server, epoch_count, dnn_layer_config>>

\* the datasets, the data loaders and the device data loaders
build_loaders ==
    /\ BenchAt("build_loaders")
    /\ events' = events \o <<Called("AiBasicMedDataset"), Called("DataLoader")>>
    /\ run_metrics' = SetMetric(run_metrics, "data_loader_time", "secs")
    /\ BenchAdvance
    /\ BenchFrame
    /\ UNCHANGED <<train_index, val_index, sparsifier, prep_width, age_mean,
                   age_std, runner, message, exc, saved, logged_metrics,
                   logged_params, runs, visdom_server, epoch_count, dnn_layer_config>>

\* compose_model: DNN(...), to_device
compose_model ==
    /\ BenchAt("compose_model")
    /\ dnn_layer_config' = model_layer_config
    /\ events' = Append(events, Called("DNN"))
    /\ run_metrics' = SetMetric(run_metrics, "model_composition_time", "secs")
    /\ BenchAdvance
    /\ BenchFrame
    /\ UNCHANGED <<train_index, val_index, sparsifier, prep_width, age_mean,
                   age_std, runner, message, exc, saved, logged_metrics,
                   logged_params, runs, visdom_server, epoch_count>>

\* connect_visom reads the attributes of self.visdom_config when it is
\* called; then Runner(...), and self.runner = the result of compose_runner
connect_visom ==
    /\ BenchAt("connect_visom")
    /\ visdom_server' =
          IF visdom_config = "None" THEN "None" ELSE VisdomConfig
    /\ events' = Append(events, Called("Runner"))
    /\ runner' = "Runner"
    /\ epoch_count' = 0
    /\ BenchAdvance
    /\ BenchFrame
    /\ UNCHANGED <<train_index, val_index, sparsifier, prep_width, age_mean,
                   age_std, run_metrics, message, exc, saved, logged_metrics,
                   logged_params, runs, dnn_layer_config>>

\* the histories a Runner keeps, one entry per epoch, from 0
train_acc(i) == <<"train_acc", i>>
val_acc(i) == <<"val_acc", i>>
train_loss(i) == <<"train_loss", i>>
val_loss(i) == <<"val_loss", i>>

\* self.runner.fit(): the Runner completes at least one epoch, and as many
\* as early stopping lets it
runner_fit ==
    /\ BenchAt("runner_fit")
    /\ \E e \in 1..MaxEpochs : epoch_count' = e
    /\ events' = Append(events, Called("runner.fit"))
    /\ run_metrics' = SetMetric(run_metrics, "fit_time", "secs")
    /\ BenchAdvance
    /\ BenchFrame
    /\ UNCHANGED <<train_index, val_index, sparsifier, prep_width, age_mean,
                   age_std, runner, message, exc, saved, logged_metrics,
                   logged_params, runs, visdom_server, dnn_layer_config>>

\* the history entries save_results records as the two scores
train_accuracy_score(e) == train_loss(e - 1)
test_accuracy_score(e) == val_loss(e - 1)

\* save_results, up to the three metrics
save_results ==
    /\ BenchAt("save_results")
    /\ run_metrics' =
         SetMetric(SetMetric(SetMetric(run_metrics,
            "epochs", epoch_count),
            "train_accuracy_score", train_accuracy_score(epoch_count)),
            "test_accuracy_score", test_accuracy_score(epoch_count))
    /\ events' = Append(events, Called("runner.get_epoch"))
    /\ BenchAdvance
    /\ BenchFrame
    /\ UNCHANGED <<train_index, val_index, sparsifier, prep_width, age_mean,
                   age_std, runner, message, exc, saved, logged_metrics,
                   logged_params, runs, visdom_server, epoch_count, dnn_layer_config>>

\* save_results: the data dict and torch.save(data, tmp_path)
torch_save ==
    /\ BenchAt("torch_save")
    /\ saved' = [input_dim |-> input_dim, age_std |-> age_std,
                 age_mean |-> age_mean]
    /\ events' = Append(events, Called("torch.save"))
    /\ BenchAdvance
    /\ BenchFrame
    /\ UNCHANGED <<train_index, val_index, sparsifier, prep_width, age_mean,
                   age_std, runner, run_metrics, message, exc, logged_metrics,
                   logged_params, runs, visdom_server, epoch_count, dnn_layer_config>>

\* mlflow.log_artifact(tmp_path, s3_filename); return True
log_artifact ==
    /\ BenchAt("log_artifact")
    /\ events' = Append(events, Called("mlflow.log_artifact"))
    /\ BenchAdvance
    /\ BenchFrame
    /\ UNCHANGED <<train_index, val_index, sparsifier, prep_width, age_mean,
                   age_std, runner, run_metrics, message, exc, saved,
                   logged_metrics, logged_params, runs, visdom_server, epoch_count, dnn_layer_config>>

\* the rows of the table a sparsifier call is given
StepRows(step, train, val) ==
    IF step = "sparsifier_fit" THEN prep_loaders_fit_rows(train, val)
    ELSE IF step = "transform_train" THEN train
    ELSE IF step = "transform_val" THEN val
    ELSE {}

\* a call of the try block raises an Exception
bench_raise ==
    /\ fn = "Bench"
    /\ pc \in SeqRange(TrySteps) \ {"check_dim"}
    /\ exc' = ExcText(pc)
    /\ events' = Append(events, Ev(StepOp(pc), FALSE,
                                   StepRows(pc, train_index, val_index), <<>>))
    /\ pc' = "except"
    /\ BenchFrame
    /\ UNCHANGED <<train_index, val_index, sparsifier, prep_width, age_mean,
                   age_std, runner, run_metrics, message, saved,
                   logged_metrics, logged_params, runs, visdom_server, epoch_count, dnn_layer_config>>

\* self.run_metrics['complete'] = 1
success_metrics(m) == SetMetric(m, "complete", 1)

\* message = "success"; self.run_metrics['complete'] = 1
run_success ==
    /\ BenchAt("succeed")
    /\ message' = "success"
    /\ run_metrics' = success_metrics(run_metrics)
    /\ pc' = "log"
    /\ BenchFrame
    /\ UNCHANGED <<train_index, val_index, sparsifier, prep_width, age_mean,
                   age_std, runner, exc, events, saved, logged_metrics,
                   logged_params, runs, visdom_server, epoch_count, dnn_layer_config>>

\* a faulty variant: a failed run is marked complete
except_metrics_as_success(m) == SetMetric(m, "complete", 1)

\* self.run_metrics['complete'] = 0
except_metrics(m) == SetMetric(m, "complete", 0)

\* except Exception as e: complete = 0; message = str(e)
run_except ==
    /\ BenchAt("except")
    /\ run_metrics' = except_metrics(run_metrics)
    /\ message' = exc
    /\ exc' = "none"
    /\ pc' = "log"
    /\ BenchFrame
    /\ UNCHANGED <<train_index, val_index, sparsifier, prep_width, age_mean,
                   age_std, runner, events, saved, logged_metrics,
                   logged_params, runs, visdom_server, epoch_count, dnn_layer_config>>

\* mlflow.log_metrics(self.run_metrics); mlflow.log_params({...}); return
run_log ==
    /\ BenchAt("log")
    /\ logged_metrics' = Append(logged_metrics, run_metrics)
    /\ logged_params' = Append(logged_params, [message |-> message])
    /\ events' = events \o <<Called("mlflow.log_metrics"),
                             Called("mlflow.log_params")>>
    /\ runs' = runs + 1
    /\ pc' = "constructed"
    /\ BenchFrame
    /\ UNCHANGED <<train_index, val_index, sparsifier, prep_width, age_mean,
                   age_std, runner, run_metrics, message, exc, saved,
                   visdom_server, epoch_count, dnn_layer_config>>

BenchNext ==
    \/ Bench_init
    \/ train_dl
    \/ train_dl_again
    \/ run
    \/ split_data
    \/ sparsifier_fit
    \/ transform_train
    \/ transform_val
    \/ check_dim
    \/ build_loaders
    \/ compose_model
    \/ connect_visom
    \/ runner_fit
    \/ save_results
    \/ torch_save
    \/ log_artifact
    \/ bench_raise
    \/ run_success
    \/ run_except
    \/ run_log

Next == RunnerNext \/ BenchNext


Spec == Init /\ [][Next]_vars

(* ---------------------------------------------------------------------- *)
(* Properties                                                              *)
(* ---------------------------------------------------------------------- *)
AdvMapBuilt == fn = "train_ai_med_adv_nb" /\ classifier_map # <<>>

RangesPartition(cm, W) ==
    /\ cm[1].start = 0
    /\ \A i \in 1..Len(cm) :
          cm[i].start < SliceEnd(cm[i], W) /\ SliceEnd(cm[i], W) <= W
    /\ \A i \in 1..(Len(cm) - 1) : SliceEnd(cm[i], W) = cm[i + 1].start
    /\ SliceEnd(cm[Len(cm)], W) = W

\* C1: in train_ai_med_adv_nb the six classifier-map ranges partition
\* [0, W), W = 3 + 8*num_symptoms, for every num_symptoms >= 1: they start at
\* 0, each ends where the next starts, none is empty or inverted, none ends
\* beyond W, and the last ends at W.
C1_AdvRangesPartition ==
    AdvMapBuilt =>
        /\ width = RegColumns + SlotsPerSymptom * num_symptoms
        /\ Len(classifier_map) = 6
        /\ RangesPartition(classifier_map, width)

\* what the encoder keeps in column c of the natural layout
ColumnKind(c) ==
    IF c < RegColumns THEN "demographic"
    ELSE LET j == (c - RegColumns) % SlotsPerSymptom
         IN  IF j = 0 THEN "presence"
             ELSE IF j \in {1, 2, 3, 6, 7} THEN "categorical"
             ELSE "continuous"

InGroup(cm, W, clf, p) ==
    \E i \in 1..Len(cm) :
        cm[i].clf = clf /\ cm[i].start <= p /\ p < SliceEnd(cm[i], W)

\* C2: in train_ai_med_adv_nb, after the reordering, the Bernoulli group
\* holds exactly the presence columns, the categorical group exactly the
\* nature, location, intensity, excitation and frequency columns, and the
\* Gaussian group exactly the duration and onset columns.
C2_AdvGroupsHoldOwnColumns ==
    AdvMapBuilt =>
        \A p \in 0..(width - 1) :
            LET k == ColumnKind(new_indices_adv(num_symptoms, p))
            IN  /\ InGroup(classifier_map, width, "symptom_clf", p)
                      <=> k = "presence"
                /\ InGroup(classifier_map, width, "nlice_categorical", p)
                      <=> k = "categorical"
                /\ InGroup(classifier_map, width, "nlice_gaussian", p)
                      <=> k = "continuous"

\* sub-attribute offsets in the order the spec fixes: presence, nature,
\* location, intensity, excitation, frequency, then duration, onset
SpecBlockOrder == <<0, 1, 2, 3, 6, 7, 4, 5>>

\* C3: in train_ai_med_adv_nb, for every num_symptoms >= 1, new_indices is
\* columns 0, 1, 2, then the presence columns in ascending symptom order,
\* then the blocks nature, location, intensity, excitation, frequency, then
\* duration and onset, each block in ascending symptom order.
C3_AdvNewIndicesOrder ==
    AdvMapBuilt =>
        \A p \in 0..(RegColumns + SlotsPerSymptom * num_symptoms - 1) :
            new_indices_adv(num_symptoms, p) =
                IF p < RegColumns THEN p
                ELSE RegColumns
                     + SlotsPerSymptom * ((p - RegColumns) % num_symptoms)
                     + SpecBlockOrder[((p - RegColumns) \div num_symptoms) + 1]

\* |accuracy of fold i - mean accuracy|, scaled by NumFolds
Deviation(v, i) == Abs(NumFolds * v[i] - SumSeq(v, NumFolds))

\* fold d (from 0) is a fold whose test accuracy deviates least from the mean
MinimumDeviation(d) ==
    /\ d \in 0..(NumFolds - 1)
    /\ \A j \in Folds : Deviation(cv_test, d + 1) <= Deviation(cv_test, j)

\* fold d (from 0) is the first fold of minimum deviation from the mean
ClosestToMeanTest(d) ==
    /\ MinimumDeviation(d)
    /\ \A j \in Folds : j < d + 1 => Deviation(cv_test, j) > Deviation(cv_test, d + 1)

\* C4: train_ai_med_nb and train_ai_med_adv_nb persist the estimator of the
\* fold whose test accuracy deviates least from the mean test accuracy, the
\* lowest such fold on a tie, and the index is a valid fold index.
C4_NBPersistsClosestToMean ==
    (fn \in {"train_ai_med_nb", "train_ai_med_adv_nb"} /\ model_file = "written")
        => ClosestToMeanTest(dumped_fold)

\* a tie between the last two folds, broken towards the lower index, with
\* training accuracies that differ from the test accuracies
C4_Witness ==
    /\ fn = "train_ai_med_adv_nb"
    /\ model_file = "written"
    /\ dumped_fold = 1
    /\ Deviation(cv_test, 2) = Deviation(cv_test, 3)
    /\ cv_train # cv_test

\* C5: train_ai_med_rf and train_ai_med_adv_rf persist the estimator of the
\* fold whose test accuracy deviates least from the mean test accuracy.
C5_RFPersistsClosestToMean ==
    (fn \in {"train_ai_med_rf", "train_ai_med_adv_rf"} /\ model_file = "written")
        => MinimumDeviation(dumped_fold)

IsSparsifierCall(e) == e.op \in {"sparsifier.fit", "sparsifier.transform"}
SparsifierCalls == SelectSeq(events, IsSparsifierCall)

\* C6: in prep_loaders the sparsifier is fitted exactly once, first, on the
\* training split only; the training and the validation split are then
\* transformed with the statistics of that fit; self.age_mean and
\* self.age_std, and the values in the saved artifact, are those statistics.
C6_FitOnceOnTrainingSplit ==
    fn = "Bench" =>
        LET c == SparsifierCalls
        IN  /\ Len(c) <= 3
            /\ \A i \in 1..Len(c) : (c[i].op = "sparsifier.fit") <=> (i = 1)
            /\ Len(c) >= 1 =>
                  /\ c[1].rows = train_index
                  /\ c[1].rows \cap val_index = {}
                  /\ c[1].ok =>
                        /\ age_mean = c[1].stats.age_mean
                        /\ age_std = c[1].stats.age_std
                        /\ age_mean # DLSparseMaker_fit(val_index).age_mean
                        /\ age_mean # DLSparseMaker_fit(Rows).age_mean
            /\ Len(c) >= 2 =>
                  /\ c[2].rows = train_index
                  /\ c[2].ok => c[2].stats = c[1].stats
            /\ Len(c) >= 3 =>
                  /\ c[3].rows = val_index
                  /\ c[3].ok => c[3].stats = c[1].stats
            /\ saved # <<>> =>
                  /\ Len(c) = 3
                  /\ saved.age_mean = c[1].stats.age_mean
                  /\ saved.age_std = c[1].stats.age_std

\* the second run of a Bench has saved its artifact
C6_Witness ==
    /\ fn = "Bench"
    /\ runs = 1
    /\ saved # <<>>
    /\ Len(SparsifierCalls) = 3

\* C7: in every train_* function no row of the test split or of a held-out
\* fold is part of the data given to the sparsifier's fit.
C7_SparsifierFitOnTrainingOnly ==
    fn \in Runners => fit_rows \cap test_rows = {}

BuiltOps == {"AiBasicMedDataset", "DataLoader", "DNN", "Runner", "runner.fit",
             "runner.get_epoch", "torch.save", "mlflow.log_artifact"}

DimensionMismatch == fn = "Bench" /\ prep_width # 0 /\ prep_width # input_dim

NothingBuilt ==
    /\ \A i \in 1..Len(events) : events[i].op \notin BuiltOps
    /\ saved = <<>>

ValidationTransformed ==
    \E i \in 1..Len(events) :
        events[i] = Ev("sparsifier.transform", TRUE, val_index, sparsifier)

\* C8 as stated: whenever the transformed training matrix is not input_dim
\* wide, nothing is built, fitted or saved, and the run is reported with
\* complete = 0 and the dimension-mismatch message.
C8_MismatchReportsDimensionMessage ==
    DimensionMismatch =>
        /\ NothingBuilt
        /\ logged_metrics # <<>> =>
              /\ logged_metrics[1]["complete"] = 0
              /\ logged_params[1].message = DimensionMessage

\* C8 as amended: whenever the transformed training matrix is not input_dim
\* wide, nothing is built, fitted or saved, and the run is reported with
\* complete = 0; the message is the dimension-mismatch message when the
\* validation split was transformed, and otherwise the text of the exception
\* that transform raised.
C8_MismatchAborts ==
    DimensionMismatch =>
        /\ NothingBuilt
        /\ logged_metrics # <<>> =>
              /\ logged_metrics[1]["complete"] = 0
              /\ logged_params[1].message =
                    IF ValidationTransformed THEN DimensionMessage
                    ELSE ExcText("transform_val")

\* a run with a mismatched width has been reported
C8_Witness ==
    /\ DimensionMismatch
    /\ logged_metrics # <<>>
    /\ logged_params[1].message = DimensionMessage

Completed(op) == \E i \in 1..Len(events) : events[i].op = op /\ events[i].ok
Raised == {i \in 1..Len(events) : ~events[i].ok}
CountOf(op) == Cardinality({i \in 1..Len(events) : events[i].op = op})
RunReturned == fn = "Bench" /\ pc = "constructed" /\ runs > 0

\* C9: when run returns, complete is 1 and the message 'success' exactly
\* when compose_runner, runner.fit and save_results all completed; otherwise
\* complete is 0 and the message is the exception's text.  No exception is
\* left in flight, and log_metrics and log_params were each called once, as
\* the last two calls of the run.
C9_CompleteIffAllSucceeded ==
    RunReturned =>
        LET n == Len(events)
        IN  /\ exc = "none"
            /\ CountOf("mlflow.log_metrics") = 1
            /\ CountOf("mlflow.log_params") = 1
            /\ events[n - 1].op = "mlflow.log_metrics"
            /\ events[n].op = "mlflow.log_params"
            /\ Len(logged_metrics) = 1
            /\ Len(logged_params) = 1
            /\ IF Completed("Runner") /\ Completed("runner.fit")
                  /\ Completed("mlflow.log_artifact")
               THEN /\ Raised = {}
                    /\ logged_metrics[1]["complete"] = 1
                    /\ logged_params[1].message = "success"
               ELSE /\ Cardinality(Raised) = 1
                    /\ logged_metrics[1]["complete"] = 0
                    /\ \A i \in Raised :
                          logged_params[1].message =
                              IF events[i].op = "assert" THEN DimensionMessage
                              ELSE "error in " \o events[i].op

\* the second run of a Bench failed in runner.fit and was reported
C9_Witness ==
    /\ RunReturned
    /\ runs = 2
    /\ logged_params[1].message = "error in runner.fit"

\* C10: in every train_* function an exception raised by a statement before
\* the final joblib.dump ends the run without a model artifact.
C10_NoArtifactOnEarlyException ==
    (fn \in Runners /\ exc_at \notin {"none", "dump"}) =>
        /\ pc = "done"
        /\ res # "True"
        /\ model_file = "absent"
        /\ dumped_fold = -1

\* writing the results JSON, the last statement before the dump, raised
C10_Witness ==
    /\ fn \in CVRunners
    /\ exc_at = "write_results"
    /\ estimator_idx = -1
    /\ cv_test # <<>>

\* the calls the classifier of train_rf and train_nb receives in a complete
\* run: fit, then per scorer the training data and the test data, then the dump
Lifecycle(keys) ==
    <<FitCall>> \o
    [i \in 1..(2 * Len(keys)) |->
        ScorerCall(keys[(i + 1) \div 2], IF i % 2 = 1 THEN "train" ELSE "test")]
    \o <<DumpCall>>

IsPrefix(s, t) == Len(s) <= Len(t) /\ \A i \in 1..Len(s) : s[i] = t[i]

\* C11: in train_rf and train_nb the calls on the classifier are, at every
\* moment, a prefix of: fit, then for each scorer in turn the train score and
\* then the test score, then the dump; so fit completes before any scorer, the
\* classifier is never fitted again, and the dump comes after every scorer;
\* when the dump is made the results JSON has already been written.
C11_ClassifierLifecycle ==
    fn \in {"train_rf", "train_nb"} =>
        /\ IsPrefix(clf_calls, Lifecycle(scorers(fn)))
        /\ (clf_calls # <<>> /\ clf_calls[Len(clf_calls)] = DumpCall) =>
              /\ results_file
              /\ Len(ScorerCalls) = 2 * Len(scorers(fn))
              /\ train_results = ResultEntries(scorers(fn))
        /\ results_file => Len(ScorerCalls) = 2 * Len(scorers(fn))

\* train_nb has fitted, scored every metric, written its results and dumped
C11_Witness ==
    /\ fn = "train_nb"
    /\ model_file = "written"
    /\ res = "True"
    /\ Len(clf_calls) = 2 + 2 * Len(scorers(fn))

NBMapBuilt == fn \in {"train_nb", "train_ai_med_nb"} /\ classifier_map # <<>>
NliceReordered == NBMapBuilt /\ is_nlice

\* k of the NLICE variant
NliceEnd == IF fn = "train_nb" THEN 7 ELSE RegColumns + Len(nlice_indices)

\* the groups start at 0, each ends where the next starts, none is inverted
\* or ends beyond W, and the last ends at W
RangesCover(cm, W) ==
    /\ cm[1].start = 0
    /\ \A i \in 1..Len(cm) :
          cm[i].start <= SliceEnd(cm[i], W) /\ SliceEnd(cm[i], W) <= W
    /\ \A i \in 1..(Len(cm) - 1) : SliceEnd(cm[i], W) = cm[i + 1].start
    /\ SliceEnd(cm[Len(cm)], W) = W

\* the ranges are {0}, {1}, {2}, [3, W), or {0}, {1}, {2}, [3, k), [k, W)
NBMapShape ==
    /\ Len(classifier_map) = (IF is_nlice THEN 5 ELSE 4)
    /\ \A i \in 1..RegColumns :
          classifier_map[i].start = i - 1 /\ classifier_map[i].end = i
    /\ classifier_map[4].start = RegColumns
    /\ is_nlice =>
          /\ classifier_map[4].end = NliceEnd
          /\ classifier_map[5].start = NliceEnd
          /\ NliceEnd <= width

NliceColumns ==
    IF fn = "train_nb" THEN {reg_indices_train_nb[i] : i \in 4..7}
    ELSE SeqRange(nlice_indices)

\* C13 as stated: in the NLICE branches of train_nb and train_ai_med_nb the
\* Bernoulli block comes first after the three demographic columns and the
\* block of the NLICE estimator comes after it.
C13_NliceBernoulliBlockFirst ==
    NliceReordered =>
        \E b, g \in 1..Len(classifier_map) :
            /\ classifier_map[b].clf = "symptom_clf"
            /\ classifier_map[g].clf = "symptom_nlice_clf"
            /\ classifier_map[b].start = RegColumns
            /\ SliceEnd(classifier_map[b], width) <= classifier_map[g].start

\* C13 as amended: in the NLICE branches the block of the NLICE estimator
\* comes first after the three demographic columns, at [3, k), and holds the
\* NLICE columns; the Bernoulli block comes after it, at [k, W), and holds
\* every other column.
C13_NliceBlockFirst ==
    NliceReordered =>
        /\ \A p \in 0..(width - 1) :
              /\ InGroup(classifier_map, width, "symptom_nlice_clf", p)
                    <=> (RegColumns <= p /\ p < NliceEnd)
              /\ InGroup(classifier_map, width, "symptom_clf", p)
                    <=> (NliceEnd <= p)
              /\ (RegColumns <= p /\ p < NliceEnd)
                    => new_indices[p + 1] \in NliceColumns
              /\ NliceEnd <= p
                    => (new_indices[p + 1] \notin NliceColumns
                        /\ new_indices[p + 1] >= RegColumns)

\* train_nb reordered a matrix wide enough for its four NLICE columns
C13_Witness ==
    /\ fn = "train_nb"
    /\ NliceReordered
    /\ new_indices[4] = 9
    /\ new_indices[8] = 3

Distinct(q) == \A i, j \in 1..Len(q) : i # j => q[i] # q[j]

\* reg_indices of the function being run
RegIndices ==
    IF fn = "train_nb" THEN reg_indices_train_nb
    ELSE reg_indices_ai_med(nlice_indices)

\* C17: in the NLICE branches of train_nb and train_ai_med_nb, for distinct
\* NLICE column indices in [3, W), new_indices is a permutation of [0, W):
\* columns 0, 1, 2, then the NLICE columns in the given order, then the
\* remaining columns ascending; train_nb applies it to the training and the
\* test matrix alike.
C17_NliceNewIndicesPermutation ==
    (NliceReordered /\ Distinct(RegIndices)) =>
        LET W == EncodedWidth(fn, is_nlice, num_symptoms)
            k == Len(RegIndices)
        IN  /\ Len(new_indices) = W
            /\ width = W
            /\ SeqRange(new_indices) = 0..(W - 1)
            /\ \A p \in 1..k : new_indices[p] = RegIndices[p]
            /\ \A p \in 1..RegColumns : new_indices[p] = p - 1
            /\ \A p, q \in (k + 1)..W : p < q => new_indices[p] < new_indices[q]
            /\ fn = "train_nb" => test_new_indices = new_indices

\* train_ai_med_nb reordered with two NLICE columns given in descending order
C17_Witness ==
    /\ fn = "train_ai_med_nb"
    /\ NliceReordered
    /\ Len(nlice_indices) = 2
    /\ nlice_indices[1] > nlice_indices[2]
    /\ new_indices[4] > new_indices[5]

TrackedMetrics == {"accuracy", "precision_weighted", "recall_weighted", "top5"}

\* C14: whenever train_rf, train_ai_med_rf, train_ai_med_nb,
\* train_ai_med_adv_rf or train_ai_med_adv_nb completes successfully, the
\* results report was written and holds the key 'name' and, for each of the
\* four tracked metrics and for nothing else, a 'train' and a 'test' value.
C14_ReportHoldsTrackedMetrics ==
    (fn \in Runners \ {"train_nb"} /\ res = "True") =>
        /\ results_file
        /\ train_results =
              {<<"name", "">>} \cup (TrackedMetrics \X {"train", "test"})

\* a cross-validating runner and train_rf's scorer loop both end in a report
C14_Witness ==
    /\ fn = "train_ai_med_adv_rf"
    /\ res = "True"
    /\ Cardinality(train_results) = 9

\* train_ai_med_adv_nb has just replaced data by data[:, new_indices]
AdvJustReordered == AdvMapBuilt /\ pc = "cross_validate"

\* C16: in train_ai_med_adv_nb, for every num_symptoms from 1 to 8191,
\* new_indices has length 3 + 8*num_symptoms and holds every column index of
\* [0, 3 + 8*num_symptoms) exactly once.
C16_AdvNewIndicesPermutation ==
    (AdvJustReordered /\ num_symptoms <= 8191) =>
        LET W == RegColumns + SlotsPerSymptom * num_symptoms
        IN  /\ new_indices_adv_len(num_symptoms) = W
            /\ width = W
            /\ {new_indices_adv(num_symptoms, p) : p \in 0..(W - 1)} = 0..(W - 1)

\* the largest vocabulary whose indices fit 16 bits: the frequency column of
\* its last symptom is column 65530, the onset column 65528
C16_Witness ==
    /\ AdvJustReordered
    /\ num_symptoms = 8191
    /\ new_indices_adv(num_symptoms, RegColumns + 6 * num_symptoms - 1) = 65530
    /\ new_indices_adv(num_symptoms, width - 1) = 65528

\* C18: the Random Forest runners never raise: they end with False when a
\* statement of the try block raised and with True only when none did and
\* the results and the model artifact were written; the Naive Bayes runners
\* end by raising when a statement raised and never with False.
C18_ExceptionsByFamily ==
    fn \in Runners =>
        /\ fn \in RFRunners => res \in {"none", "True", "False"}
        /\ fn \in NBRunners => res \in {"none", "True", "raised"}
        /\ res = "True" =>
              /\ exc_at = "none"
              /\ results_file
              /\ model_file = "written"
        /\ res \in {"False", "raised"} <=> exc_at # "none"
        /\ pc = "done" <=> res # "none"

\* a Random Forest runner returned False after its dump raised
C18_Witness ==
    /\ fn = "train_ai_med_adv_rf"
    /\ res = "False"
    /\ exc_at = "dump"

\* C15: the visdom configuration held by a Bench that train_dl built is the
\* one given to that call of train_dl, whatever other calls of train_dl do,
\* and connect_visom connects with it.
C15_VisdomConfigUnshared ==
    (fn = "Bench" /\ visdom_config = "VisdomConfig") =>
        /\ VisdomConfig = visdom_arg
        /\ visdom_server \in {"None", visdom_arg}

OkTransforms ==
    {i \in 1..Len(events) : events[i].op = "sparsifier.transform" /\ events[i].ok}

\* the statement that writes metric k completed during the current run
WrittenThisRun(k) ==
    CASE k = "split_data_time" -> Completed("split_data")
      [] k = "sparsify_data_time" ->
            Cardinality(OkTransforms) = 2 /\ ~(\E i \in Raised : events[i].op = "assert")
      [] k = "data_loader_time" -> Completed("DataLoader")
      [] k = "model_composition_time" -> Completed("DNN")
      [] k = "fit_time" -> Completed("runner.fit")
      [] k \in {"epochs", "train_accuracy_score", "test_accuracy_score"} ->
            Completed("runner.get_epoch")
      [] k = "complete" -> TRUE
      [] OTHER -> FALSE

\* C19: the metrics a run of a Bench passes to mlflow.log_metrics hold only
\* entries written during that run: every key in them was written by a
\* statement that completed in that run, and read_data_time, written during
\* construction, is not among them.
C19_LoggedMetricsOfThisRunOnly ==
    fn = "Bench" =>
        \A i \in 1..Len(logged_metrics) :
            /\ "read_data_time" \notin DOMAIN logged_metrics[i]
            /\ "complete" \in DOMAIN logged_metrics[i]
            /\ \A k \in DOMAIN logged_metrics[i] : WrittenThisRun(k)

\* the first run of a Bench fitted its Runner, the second failed at once
C19_Witness ==
    /\ RunReturned
    /\ runs = 2
    /\ epoch_count > 0
    /\ DOMAIN logged_metrics[1] = {"complete"}

\* C20: the metrics save_results records are the Runner's epoch count as
\* 'epochs' and its training and validation accuracy of the last completed
\* epoch as 'train_accuracy_score' and 'test_accuracy_score'.
C20_ScoresAreAccuracies ==
    (fn = "Bench" /\ "epochs" \in DOMAIN run_metrics) =>
        /\ run_metrics["epochs"] = epoch_count
        /\ run_metrics["train_accuracy_score"] = train_acc(epoch_count - 1)
        /\ run_metrics["test_accuracy_score"] = val_acc(epoch_count - 1)

BuiltByTrainDl == fn = "Bench" /\ visdom_arg # "none"

\* C21: the Bench built by train_dl has layer_config_file equal to the
\* layer_config_file argument of train_dl, its model_layer_config is what
\* get_layer_config loads from that file, compose_model gives that to the
\* DNN, and an argument that is not None never yields a None configuration.
C21_LayerConfigFileReachesModel ==
    BuiltByTrainDl =>
        /\ layer_config_file = layer_config_arg
        /\ model_layer_config = get_layer_config(layer_config_arg)
        /\ dnn_layer_config \in {"unbuilt", get_layer_config(layer_config_arg)}
        /\ layer_config_arg # "None" => model_layer_config # "None"

====
